---- MODULE Spec2Model ----
(***************************************************************************)
(* PhysiCell Studio (micro): the 3D viewer of src/studio/bin/vtk_view.py   *)
(* and the binary download script src/download_binary.py.                  *)
(*                                                                         *)
(* SpecApi     the viewer: open_window, set_current_frame, close, a direct *)
(*             update_frame_data, the frame-update timer, and the output   *)
(*             directory changing under it.  open_vtk_view is the          *)
(*             constructor followed by open_window: an initial state and   *)
(*             the open_window step from it.                               *)
(* Spec        SpecApi and the direct calls of the methods that add props  *)
(*             to the scene (create_demo_sphere, add_frame_info_text,      *)
(*             add_error_text, try_svg_fallback, load_and_display_cells).  *)
(* SpecColor   the colour lookup of load_and_display_cells on one cell.    *)
(* SpecRadius  the radius formula of load_and_display_cells on one cell.   *)
(* SpecDL      one run of the download script, statement by statement.     *)
(***************************************************************************)
EXTENDS Integers, Sequences, FiniteSets, TLC

VARIABLES
    \* ---- PhysiCellVTKView ----
    current_frame,   \* self.current_frame
    cell_colors,     \* self.cell_colors: sequence of <<r, g, b>>, each in ColorDen-ths
    output_dir,      \* self.output_dir
    has_qt_window,   \* hasattr(self, 'qt_window')
    title,           \* the Qt window's title ("" before a window exists)
    vtk_win,         \* self.vtk_win is not None
    renderer,        \* self.renderer is not None
    interactor,      \* self.interactor is not None
    update_timer,    \* "None" | "active" | "stopped"
    scene,           \* the view props of self.renderer, in the order added
    files,           \* names of the files present in output_dir
    direct_props,    \* calls that added props to the scene outside an update
    last,            \* the last call made on the viewer and what it did
    \* ---- one cell through the colour lookup / the radius formula ----
    fn_pc, fn_table, fn_type, fn_color, fn_vol, fn_radius,
    \* ---- download_binary.py ----
    pc,              \* the statement the script is at
    argv,            \* sys.argv
    os_type,         \* platform.system()
    model, mb_file, url,
    cwd,             \* "start" | "dir_name"
    disk,            \* the files of the script's directory: name -> [data, exec]
    fetched,         \* the archive the server sent
    status,          \* the exit status (-1 while running)
    log              \* what the script printed and did

viewVars == <<current_frame, cell_colors, output_dir, has_qt_window, title, vtk_win, renderer,
              interactor, update_timer, scene, files, direct_props, last>>
fnVars == <<fn_pc, fn_table, fn_type, fn_color, fn_vol, fn_radius>>
dlVars == <<pc, argv, os_type, model, mb_file, url, cwd, disk, fetched, status, log>>
vars == <<viewVars, fnVars, dlVars>>

(***************************************************************************)
(* Bounds of the model.                                                    *)
(***************************************************************************)
MaxFrame == 0
MaxFiles == 2
MaxDirect == 1
BigFrame == 123456789
MaxColors == 2
MaxType == 2
MaxVolume == 3000
ColorDen == 4

\* frame indices tried: a negative one, small ones, one wider than the padding
Frames == ((0 - 1)..MaxFrame) \cup {BigFrame}

(***************************************************************************)
(* Python string formatting.                                               *)
(***************************************************************************)
Digit(d) == SubSeq("0123456789", d + 1, d + 1)

RECURSIVE DecDigits(_)
DecDigits(n) == IF n < 10 THEN Digit(n) ELSE DecDigits(n \div 10) \o Digit(n % 10)

\* str(n) / f"{n}" of an int
Str(n) == IF n < 0 THEN "-" \o DecDigits(0 - n) ELSE DecDigits(n)

RECURSIVE ZeroFill(_, _)
ZeroFill(s, w) == IF Len(s) >= w THEN s ELSE ZeroFill("0" \o s, w)

FrameWidth == 8
\* f"{n:08d}": the sign counts in the width, the zeros go after it
Fmt08d(n) == IF n < 0 THEN "-" \o ZeroFill(DecDigits(0 - n), FrameWidth - 1)
                      ELSE ZeroFill(DecDigits(n), FrameWidth)

xml_file_root(n) == "output" \o Fmt08d(n) \o ".xml"
svg_file(n) == "snapshot" \o Fmt08d(n) \o ".svg"

\* os.path.join(a, b) of posixpath, for a relative b
os_path_join(a, b) ==
    IF a = "" \/ SubSeq(a, Len(a), Len(a)) = "/" THEN a \o b ELSE a \o "/" \o b

\* os.path.exists(os.path.join(self.output_dir, name)): fls holds the names
\* of the files of output_dir
path_exists(fls, name) == name \in fls

WindowTitle(n) == "PhysiCell VTK Viewer - Frame " \o Str(n)

(***************************************************************************)
(* View props.                                                             *)
(***************************************************************************)
TextActor(s) == [kind |-> "text", text |-> s, radius |-> 0, colors |-> <<>>, sizes |-> <<>>]
DemoRadius == 50
SphereActor == [kind |-> "sphere", text |-> "", radius |-> DemoRadius,
                colors |-> <<>>, sizes |-> <<>>]
GlyphActor(cs, ss) == [kind |-> "glyphs", text |-> "", radius |-> 0,
                       colors |-> cs, sizes |-> ss]

HelpText == TextActor("Left mouse: Rotate | Right mouse: Zoom | Middle mouse: Pan")

\* what a step of a handler yields: the scene so far, what it did, and the
\* text of the exception it raised ("" when it returned)
Step(sc, ev, exc) == [scene |-> sc, events |-> ev, exc |-> exc]

\* one thing a handler did: a call to the toolkit, a probe of the file system
\* (ok: what it answered), a line printed, an exception raised inside the try
Ev(kind, arg, ok) == [ev |-> kind, arg |-> arg, ok |-> ok]
Did(kind) == Ev(kind, "", TRUE)
Printed(text) == Ev("print", text, TRUE)
Raised(text) == Ev("raise", text, TRUE)

(***************************************************************************)
(* Colour and radius of one cell (load_and_display_cells).                 *)
(***************************************************************************)
ColorScale == 255
DefaultGray == 180

\* int(c * 255) of a component c = num / ColorDen in [0, 1]
Component(num) == (num * ColorScale) \div ColorDen

\* list.__getitem__ with an int: negative indices count from the end
ListIndexOk(table, ct) == ct < Len(table) /\ ct >= 0 - Len(table)
ListGet(table, ct) == IF ct >= 0 THEN table[ct + 1] ELSE table[Len(table) + ct + 1]

\* lines 179-186: the colour of a cell of type ct, or the IndexError of the lookup
ColorOf(table, ct) ==
    IF ct < Len(table)
    THEN [exc |-> IF ListIndexOk(table, ct) THEN "" ELSE "list index out of range",
          rgb |-> IF ListIndexOk(table, ct)
                  THEN <<Component(ListGet(table, ct)[1]), Component(ListGet(table, ct)[2]),
                         Component(ListGet(table, ct)[3])>>
                  ELSE <<>>]
    ELSE [exc |-> "", rgb |-> <<DefaultGray, DefaultGray, DefaultGray>>]

\* floor(n * 10^k / c) without leaving 32 bits: long division, one digit a step
RECURSIVE LongDiv(_, _, _, _)
LongDiv(rem, k, c, acc) ==
    IF k = 0 THEN acc
    ELSE LongDiv((rem * 10) % c, k - 1, c, acc * 10 + ((rem * 10) \div c))
ScaledDiv(n, k, c) == LongDiv(n % c, k, c, n \div c)

\* the largest r with r^3 <= x, by bisection: lo^3 <= x < hi^3 throughout
RECURSIVE CubeRootIn(_, _, _)
CubeRootIn(x, lo, hi) ==
    IF hi - lo <= 1 THEN lo
    ELSE LET mid == (lo + hi) \div 2
         IN IF mid * mid * mid <= x THEN CubeRootIn(x, mid, hi) ELSE CubeRootIn(x, lo, mid)
ICbrt(x) == CubeRootIn(x, 0, 1290)

\* four_thirds_pi = 4.188790204786391, in units of 10^-7
four_thirds_pi == 41887902

\* np.divide(cell_vols, four_thirds_pi), in millionths: vol * 10^13 / four_thirds_pi
VolOverPi(vol) == ScaledDiv(vol, 13, 31415927)
VolOverFtp(vol) == ScaledDiv(vol, 13, four_thirds_pi)

\* np.power(., 0.333...): the radius in hundredths, rounded down
CellRadius(vol) == ICbrt(VolOverFtp(vol))

(***************************************************************************)
(* What the external parser (pyMCDS_cells) yields for an output file.      *)
(***************************************************************************)
SampleVolume == 2494
SampleMins == 1501
CellTypes == (0 - (MaxColors + 1))..MaxType
Cell(ct, vol) == [cell_type |-> ct, total_volume |-> vol]

RECURSIVE SeqsUpTo(_, _)
SeqsUpTo(S, n) ==
    IF n = 0 THEN {<<>>}
    ELSE SeqsUpTo(S, n - 1) \cup {Append(s, x) : s \in {t \in SeqsUpTo(S, n - 1) : Len(t) = n - 1}, x \in S}

\* the tables the viewer is run on: a file that cannot be parsed, no cell, cells
\* of types inside the colour table, past its end, and before its start
ViewCellLists ==
    { <<>>,
      <<Cell(0, SampleVolume)>>,
      <<Cell(1, SampleVolume), Cell(0 - 1, SampleVolume)>>,
      <<Cell(0, SampleVolume), Cell(0 - 2, SampleVolume)>> }
NoOutcome == [ok |-> FALSE, cells |-> <<>>, mins |-> 0]
LoaderOutcomes ==
    {NoOutcome} \cup {[ok |-> TRUE, cells |-> c, mins |-> SampleMins] : c \in ViewCellLists}

\* the parser runs only on a file that exists
OutcomesFor(fls, frame) ==
    IF path_exists(fls, xml_file_root(frame)) THEN LoaderOutcomes ELSE {NoOutcome}

\* lines 224-227
TimeStr(mins) ==
    LET hrs == mins \div 60
        days == hrs \div 24
    IN Str(days) \o "d, " \o Str(hrs - days * 24) \o "h, " \o Str(mins - hrs * 60) \o "m"

(***************************************************************************)
(* The viewer's methods, as functions of the scene.                        *)
(***************************************************************************)
create_demo_sphere(sc) == Append(sc, SphereActor)

add_frame_info_text(sc, frame) == Append(sc, TextActor("CURRENT FRAME: " \o Str(frame)))

add_error_text(sc, error_msg) == Append(sc, TextActor("Error loading data: " \o error_msg))

load_and_display_cells(sc, frame, root, outcome, table) ==
    LET n == Len(outcome.cells)
        cols == [i \in 1..n |-> ColorOf(table, outcome.cells[i].cell_type)]
        bad == {i \in 1..n : cols[i].exc # ""}
        first == CHOOSE i \in bad : \A j \in bad : i <= j
        ev0 == <<Ev("load", root, TRUE)>>
    IN IF ~outcome.ok
       THEN Step(sc, Append(ev0, Raised("cannot read " \o root)), "cannot read " \o root)
       ELSE IF bad # {} THEN Step(sc, Append(ev0, Raised(cols[first].exc)), cols[first].exc)
       ELSE Step(sc \o <<GlyphActor([i \in 1..n |-> cols[i].rgb],
                                    [i \in 1..n |-> CellRadius(outcome.cells[i].total_volume)]),
                         TextActor("FILE: " \o root),
                         TextActor("PhysiCell Frame " \o Str(frame) \o " - " \o Str(n)
                                   \o " cells - " \o TimeStr(outcome.mins))>>,
                 Append(ev0, Printed("Loaded " \o Str(n) \o " cells from frame " \o Str(frame))),
                 "")

\* lines 247-282.  The text and the print carry svg_path, the file name joined
\* to output_dir (lines 250, 253, 257)
try_svg_fallback(sc, frame, fls) ==
    LET svg_path == os_path_join(output_dir, svg_file(frame))
        ev0 == <<Ev("exists", svg_file(frame), path_exists(fls, svg_file(frame)))>>
    IN IF path_exists(fls, svg_file(frame))
       THEN Step(create_demo_sphere(sc \o <<TextActor("FILE: " \o svg_path),
                     TextActor("SVG files contain limited position data. Full 3D visualization requires XML output.")>>),
                 Append(ev0, Printed("Found SVG file: " \o svg_path)), "")
       ELSE Step(create_demo_sphere(Append(sc,
                     TextActor("No cell data found for frame " \o Str(frame)))),
                 ev0, "")

LoadFrameSvgFirst(sc, frame, fls, outcome, table) ==
    LET r == IF path_exists(fls, svg_file(frame)) \/ ~path_exists(fls, xml_file_root(frame))
             THEN try_svg_fallback(sc, frame, fls)
             ELSE LET l == load_and_display_cells(sc, frame, xml_file_root(frame), outcome, table)
                  IN Step(l.scene,
                          <<Ev("exists", svg_file(frame), FALSE),
                            Ev("exists", xml_file_root(frame), TRUE)>> \o l.events, l.exc)
    IN r

\* lines 116-125: the body of the try
LoadFrame(sc, frame, fls, outcome, table) ==
    LET ev0 == <<Ev("exists", xml_file_root(frame), path_exists(fls, xml_file_root(frame)))>>
        r == IF path_exists(fls, xml_file_root(frame))
             THEN load_and_display_cells(sc, frame, xml_file_root(frame), outcome, table)
             ELSE try_svg_fallback(sc, frame, fls)
    IN Step(r.scene, ev0 \o r.events, r.exc)

\* lines 126-129: the except clause
HandleLoadErrorSilent(r) == Step(r.scene, r.events, "")
HandleLoadError(r) ==
    IF r.exc = "" THEN r
    ELSE Step(add_error_text(create_demo_sphere(r.scene), r.exc),
              Append(r.events, Printed("Error loading cell data: " \o r.exc)), "")

UpdateFrameDataNoClear(rend, win, frame, fls, outcome, table) ==
    IF ~rend THEN Step(<<>>, <<>>, "'NoneType' object has no attribute 'RemoveAllViewProps'")
    ELSE LET r == HandleLoadError(LoadFrame(add_frame_info_text(scene, frame),
                                            frame, fls, outcome, table))
         IN Step(r.scene,
                 <<Did("RemoveAllViewProps")>> \o r.events \o <<Did("add_orientation_axes")>>
                    \o (IF win THEN <<Did("Render")>> ELSE <<>>),
                 r.exc)

\* lines 108-136.  rend, win: self.renderer / self.vtk_win are not None
update_frame_data(rend, win, frame, fls, outcome, table) ==
    IF ~rend THEN Step(<<>>, <<>>, "'NoneType' object has no attribute 'RemoveAllViewProps'")
    ELSE LET r == HandleLoadError(LoadFrame(add_frame_info_text(<<>>, frame),
                                            frame, fls, outcome, table))
         IN Step(r.scene,
                 <<Did("RemoveAllViewProps")>> \o r.events \o <<Did("add_orientation_axes")>>
                    \o (IF win THEN <<Did("Render")>> ELSE <<>>),
                 r.exc)

Call(op, arg, prev, r) ==
    [op |-> op, arg |-> arg, prev |-> prev, raised |-> r.exc, events |-> r.events]

(***************************************************************************)
(* Actions of the viewer.                                                  *)
(***************************************************************************)
\* lines 38-106
open_window ==
    \E outcome \in OutcomesFor(files, current_frame) :
        LET r == update_frame_data(TRUE, TRUE, current_frame, files, outcome, cell_colors)
        IN /\ has_qt_window' = TRUE
           /\ title' = WindowTitle(current_frame)
           /\ vtk_win' = TRUE
           /\ interactor' = TRUE
           /\ renderer' = TRUE
           /\ scene' = Append(r.scene, HelpText)
           /\ update_timer' = "active"
           /\ last' = Call("open_window", current_frame, current_frame,
                           Step(r.scene, Append(r.events, Did("add_orientation_axes")), r.exc))
           /\ direct_props' = 0
           /\ UNCHANGED <<current_frame, cell_colors, output_dir, files>>

\* lines 339-354
SetCurrentFrameNoGuard(frame_num) ==
    \E outcome \in OutcomesFor(files, frame_num) :
        LET r == update_frame_data(renderer, vtk_win, frame_num, files, outcome, cell_colors)
            ev == <<Printed("VTK viewer updating to frame " \o Str(frame_num))>>
        IN /\ current_frame' = frame_num
           \* line 350 names the render window instead, when there is no Qt window
           /\ title' = IF has_qt_window THEN WindowTitle(frame_num) ELSE title
           /\ scene' = IF r.exc = "" THEN r.scene ELSE scene
           /\ direct_props' = IF r.exc = "" THEN 0 ELSE direct_props
           /\ last' = Call("set_current_frame", frame_num, current_frame,
                           Step(r.scene, ev \o r.events, r.exc))
           /\ UNCHANGED <<cell_colors, output_dir, has_qt_window, vtk_win, renderer, interactor,
                          update_timer, files>>

set_current_frame(frame_num) ==
    IF current_frame = frame_num
    THEN /\ last' = Call("set_current_frame", frame_num, current_frame, Step(scene, <<>>, ""))
         /\ UNCHANGED <<current_frame, cell_colors, output_dir, has_qt_window, title, vtk_win, renderer,
                        interactor, update_timer, scene, files, direct_props>>
    ELSE SetCurrentFrameNoGuard(frame_num)

\* lines 108-136, called by the owner of the viewer rather than by
\* open_window or set_current_frame: the frame and the title stay
call_update_frame_data ==
    \E outcome \in OutcomesFor(files, current_frame) :
        LET r == update_frame_data(renderer, vtk_win, current_frame, files, outcome, cell_colors)
        IN /\ scene' = IF r.exc = "" THEN r.scene ELSE scene
           /\ direct_props' = IF r.exc = "" THEN 0 ELSE direct_props
           /\ last' = Call("update_frame_data", current_frame, current_frame, r)
           /\ UNCHANGED <<current_frame, cell_colors, output_dir, has_qt_window, title, vtk_win,
                          renderer, interactor, update_timer, files>>

\* A method that adds props, called by the owner of the viewer rather than by
\* update_frame_data.  r is what the method does on a renderer; without one
\* (before open_window, after close) its first self.renderer.<attr> raises,
\* after the events `before`.  Nothing clears the scene: the props pile up.
DirectCall(op, arg, r, attr, before) ==
    LET res == IF r.exc # "" THEN Step(scene, r.events, r.exc)
               ELSE IF ~renderer
               THEN Step(scene, before, "'NoneType' object has no attribute '" \o attr \o "'")
               ELSE r
    IN /\ res.exc = "" => direct_props < MaxDirect
       /\ scene' = res.scene
       /\ direct_props' = IF res.exc = "" THEN direct_props + 1 ELSE direct_props
       /\ last' = Call(op, arg, current_frame, res)
       /\ UNCHANGED <<current_frame, cell_colors, output_dir, has_qt_window, title, vtk_win,
                      renderer, interactor, update_timer, files>>

\* lines 284-303
call_create_demo_sphere ==
    DirectCall("create_demo_sphere", current_frame,
               Step(create_demo_sphere(scene), <<>>, ""), "AddActor", <<>>)

\* lines 321-328
call_add_frame_info_text ==
    DirectCall("add_frame_info_text", current_frame,
               Step(add_frame_info_text(scene, current_frame), <<>>, ""), "AddActor2D", <<>>)

\* lines 330-337
ErrorMsgs == {"boom"}
call_add_error_text ==
    \E error_msg \in ErrorMsgs :
        DirectCall("add_error_text", current_frame,
                   Step(add_error_text(scene, error_msg), <<>>, ""), "AddActor2D", <<>>)

\* lines 247-282
call_try_svg_fallback ==
    LET r == try_svg_fallback(scene, current_frame, files)
    IN DirectCall("try_svg_fallback", current_frame, r, "AddActor2D", r.events)

\* lines 138-245: xml_file_root is the file of the current frame or of any
\* frame whose file is there
call_load_and_display_cells ==
    \E n \in Frames :
        /\ n = current_frame \/ path_exists(files, xml_file_root(n))
        /\ \E outcome \in OutcomesFor(files, n) :
              DirectCall("load_and_display_cells", n,
                         load_and_display_cells(scene, current_frame, xml_file_root(n),
                                                outcome, cell_colors),
                         "AddActor", <<Ev("load", xml_file_root(n), TRUE)>>)

\* lines 356-361: the slot of the 500 ms timer started by open_window
CheckForFrameUpdatePolls ==
    /\ update_timer = "active"
    /\ renderer
    /\ \E n \in Frames :
         /\ path_exists(files, xml_file_root(n))
         /\ current_frame' = n
    /\ last' = Call("check_for_frame_update", 0, current_frame, Step(scene, <<>>, ""))
    /\ UNCHANGED <<cell_colors, output_dir, has_qt_window, title, vtk_win, renderer, interactor,
                   update_timer, scene, files, direct_props>>

check_for_frame_update ==
    /\ update_timer = "active"
    /\ last' = Call("check_for_frame_update", 0, current_frame, Step(scene, <<>>, ""))
    /\ UNCHANGED <<current_frame, cell_colors, output_dir, has_qt_window, title, vtk_win, renderer,
                   interactor, update_timer, scene, files, direct_props>>

\* lines 363-379
close ==
    /\ update_timer' = IF update_timer = "None" THEN "None" ELSE "stopped"
    /\ vtk_win' = FALSE
    /\ renderer' = FALSE
    /\ interactor' = FALSE
    /\ scene' = <<>>
    /\ direct_props' = 0
    /\ last' = Call("close", 0, current_frame, Step(<<>>, <<>>, ""))
    /\ UNCHANGED <<current_frame, cell_colors, output_dir, has_qt_window, title, files>>

\* the simulation writes, or the user deletes, an output file
OutputFiles == {xml_file_root(n) : n \in Frames} \cup {svg_file(n) : n \in Frames}
OutputFileWritten == \E f \in OutputFiles \ files :
    /\ Cardinality(files) < MaxFiles
    /\ files' = files \cup {f}
    /\ UNCHANGED <<current_frame, cell_colors, output_dir, has_qt_window, title, vtk_win, renderer,
                   interactor, update_timer, scene, direct_props, last>>
OutputFileRemoved == \E f \in files :
    /\ files' = files \ {f}
    /\ UNCHANGED <<current_frame, cell_colors, output_dir, has_qt_window, title, vtk_win, renderer,
                   interactor, update_timer, scene, direct_props, last>>

\* directories a caller may pass as output_dir: the empty path, which
\* os.path.join leaves out, and one that it puts in front of the file name
OutputDirs == {"", "/sim/output"}

\* colours a caller may pass in cell_colors
Palette == <<<<ColorDen, 0, 0>>, <<0, ColorDen \div 2, 1>>, <<1, 2, 3>>, <<0, 0, ColorDen>>>>

(***************************************************************************)
(* One cell through the colour lookup and through the radius formula.      *)
(***************************************************************************)
ColorTables == SeqsUpTo({Palette[i] : i \in 1..Len(Palette)}, MaxColors)
NoColor == [exc |-> "", rgb |-> <<>>]

ApplyColor ==
    /\ fn_pc = "color_in"
    /\ fn_color' = ColorOf(fn_table, fn_type)
    /\ fn_pc' = "color_out"
    /\ UNCHANGED <<fn_table, fn_type, fn_vol, fn_radius>>

ApplyRadius ==
    /\ fn_pc = "radius_in"
    /\ fn_radius' = CellRadius(fn_vol)
    /\ fn_pc' = "radius_out"
    /\ UNCHANGED <<fn_table, fn_type, fn_color, fn_vol>>

(***************************************************************************)
(* download_binary.py                                                      *)
(***************************************************************************)
physicell_version == "1.14.2"
repo_physicell == "MathCancer/PhysiCell"
physiboss_version == "v2.2.3"
repo_physiboss == "sysbio-curie/PhysiBoSS"

\* the keys of list_models, in the order of the dict
ModelList == <<"physiboss-tutorial", "physiboss-tutorial-invasion", "physiboss-cell-lines",
               "template_BM", "template", "rules", "physimess", "interaction">>
ModelKeys == {ModelList[i] : i \in 1..Len(ModelList)}
PhysiBoSSModels == {ModelList[i] : i \in 1..4}

list_models(m) ==
    IF m \in PhysiBoSSModels
    THEN "https://github.com/" \o repo_physiboss \o "/releases/download/" \o physiboss_version \o "/"
    ELSE "https://github.com/" \o repo_physicell \o "/releases/download/" \o physicell_version \o "/"

RECURSIVE Join(_, _)
Join(sep, seq) == IF Len(seq) = 0 THEN ""
                  ELSE IF Len(seq) = 1 THEN seq[1]
                  ELSE seq[1] \o sep \o Join(sep, Tail(seq))

\* lines 29-32
print_usage == <<Printed("Usage : python download_binary.py <model>"),
                 Printed(""),
                 Printed("Models available : " \o Join(", ", ModelList))>>

\* str.lower() and str.startswith()
UpperCase == "ABCDEFGHIJKLMNOPQRSTUVWXYZ"
LowerCase == "abcdefghijklmnopqrstuvwxyz"
LowerChar(c) == IF \E i \in 1..26 : SubSeq(UpperCase, i, i) = c
                THEN LET i == CHOOSE k \in 1..26 : SubSeq(UpperCase, k, k) = c
                     IN SubSeq(LowerCase, i, i)
                ELSE c
RECURSIVE Lower(_)
Lower(s) == IF Len(s) = 0 THEN ""
            ELSE LowerChar(SubSeq(s, 1, 1)) \o Lower(SubSeq(s, 2, Len(s)))
StartsWith(s, p) == Len(s) >= Len(p) /\ SubSeq(s, 1, Len(p)) = p
EndsWith(s, p) == Len(s) >= Len(p) /\ SubSeq(s, Len(s) - Len(p) + 1, Len(s)) = p

\* lines 55-64: the archive's name, "" for an unsupported system
ArchiveNameCaseSensitive(m, os) ==
    IF os = "darwin" THEN m \o "-macos.tar.gz"
    ELSE IF StartsWith(os, "win") \/ StartsWith(os, "msys_nt") \/ StartsWith(os, "mingw64_nt")
    THEN m \o "-win.tar.gz"
    ELSE IF StartsWith(os, "linux") THEN m \o "-linux.tar.gz"
    ELSE ""
ArchiveName(m, os) ==
    IF Lower(os) = "darwin" THEN m \o "-macos.tar.gz"
    ELSE IF \/ StartsWith(Lower(os), "win")
            \/ StartsWith(Lower(os), "msys_nt")
            \/ StartsWith(Lower(os), "mingw64_nt")
    THEN m \o "-win.tar.gz"
    ELSE IF StartsWith(Lower(os), "linux") THEN m \o "-linux.tar.gz"
    ELSE ""

\* the files of a directory
File(data, exec, isdir) == [data |-> data, exec |-> exec, isdir |-> isdir]
Put(d, name, f) == [n \in (DOMAIN d) \cup {name} |-> IF n = name THEN f ELSE d[n]]
Remove(d, name) == [n \in (DOMAIN d) \ {name} |-> d[n]]
EmptyDisk == [n \in {} |-> File("", FALSE, FALSE)]
StaleDisk == Put(EmptyDisk, "project", File("an older build", FALSE, FALSE))

\* what the server may send for the archive
Member(name, isfile, exec) == [name |-> name, isfile |-> isfile, exec |-> exec,
                               data |-> "binary " \o name]
Archive(id, readable, members) == [id |-> id, readable |-> readable, members |-> members]
NoArchive == Archive("", FALSE, <<>>)
Archives ==
    { Archive("project", TRUE, <<Member("project", TRUE, TRUE)>>),
      Archive("project.exe", TRUE, <<Member("project.exe", TRUE, FALSE),
                                     Member("libgomp.dll", TRUE, FALSE)>>),
      Archive("template", TRUE, <<Member("template", TRUE, TRUE)>>),
      Archive("bin", TRUE, <<Member("bin", FALSE, TRUE), Member("bin/project", TRUE, TRUE)>>),
      Archive("empty", TRUE, <<>>),
      Archive("not a tar file", FALSE, <<>>) }

Exit(code, events) ==
    /\ pc' = "exited"
    /\ status' = code
    /\ log' = log \o events

\* lines 34-50
SelectModelNoCheck ==
    /\ pc = "select"
    /\ LET m == IF Len(argv) < 2 THEN "template_BM" ELSE argv[2]
           ev == IF Len(argv) < 2 THEN print_usage ELSE <<Printed("model =  " \o m)>>
       IN /\ model' = m
          /\ pc' = "platform"
          /\ log' = log \o ev \o <<Printed("> Chosen model:  " \o m)>>
          /\ UNCHANGED status
    /\ UNCHANGED <<argv, os_type, mb_file, url, cwd, disk, fetched>>

SelectModel ==
    /\ pc = "select"
    /\ LET m == IF Len(argv) < 2 THEN "template_BM" ELSE argv[2]
           ev == IF Len(argv) < 2 THEN print_usage ELSE <<Printed("model =  " \o m)>>
       IN /\ model' = m
          /\ IF m \in {"-h", "--help"} \/ m \notin ModelKeys
             THEN Exit(1, ev \o print_usage)
             ELSE /\ pc' = "platform"
                  /\ log' = log \o ev \o <<Printed("> Chosen model:  " \o m)>>
                  /\ UNCHANGED status
    /\ UNCHANGED <<argv, os_type, mb_file, url, cwd, disk, fetched>>

\* lines 52-74
ResolvePlatformWith(name) ==
    /\ pc = "platform"
    /\ mb_file' = name
    /\ IF name = ""
       THEN /\ Exit(1, <<Did("platform.system"), Printed("> Operating system:  " \o os_type),
                         Printed("Your operating system seems to be unsupported. Please create an new issue at https://github.com/PhysiBoSS/PhysiBoSS/issues/ ")>>)
            /\ UNCHANGED url
       ELSE /\ url' = list_models(model) \o name
            /\ pc' = "fetch"
            /\ log' = log \o <<Did("platform.system"),
                               Printed("> Operating system:  " \o os_type),
                               Printed("> Downloading from:  " \o list_models(model) \o name),
                               Printed("> Loading into directory:  dir_name"),
                               Printed("> File:  dir_name/" \o name)>>
            /\ UNCHANGED status
    /\ UNCHANGED <<argv, os_type, model, cwd, disk, fetched>>

ResolvePlatform == ResolvePlatformWith(ArchiveName(model, os_type))

\* line 88: urllib.request.urlretrieve(url, my_file, download_cb).  The server
\* refuses (nothing is written), or sends archive a: whole, or cut short, and
\* then the bytes received are in my_file when urlretrieve raises
Fetch ==
    /\ pc = "fetch"
    /\ \E a \in Archives \cup {NoArchive}, whole \in BOOLEAN :
         IF a = NoArchive
         THEN /\ Exit(1, <<Ev("urlretrieve", url, FALSE)>>)
              /\ UNCHANGED <<disk, fetched>>
         ELSE IF ~whole
         THEN /\ Exit(1, <<Ev("urlretrieve", url, FALSE)>>)
              /\ disk' = Put(disk, mb_file,
                             File("first 10 bytes of archive " \o a.id, FALSE, FALSE))
              /\ UNCHANGED fetched
         ELSE /\ disk' = Put(disk, mb_file, File("archive " \o a.id, FALSE, FALSE))
              /\ fetched' = a
              /\ pc' = "chdir"
              /\ log' = Append(log, Ev("urlretrieve", url, TRUE))
              /\ UNCHANGED status
    /\ UNCHANGED <<argv, os_type, model, mb_file, url, cwd>>

\* lines 98-99
Chdir ==
    /\ pc = "chdir"
    /\ cwd' = "dir_name"
    /\ pc' = "extract"
    /\ log' = log \o <<Did("chdir"), Printed("> Uncompressing the model")>>
    /\ UNCHANGED <<argv, os_type, model, mb_file, url, disk, fetched, status>>

\* lines 101-126.  extract_ok, remove_ok: whether the file system lets
\* tar.extract and os.remove succeed; written: whether a tar.extract that
\* fails had already created the member, which then holds what was written of
\* it, in place of any older file of that name
UntarError == Printed("! Error untarring the file")
ExtractCarriesOn ==
    /\ pc = "extract"
    /\ \E extract_ok \in BOOLEAN, written \in BOOLEAN, remove_ok \in BOOLEAN :
         LET first == fetched.members[1]
             opened == <<Ev("tarfile.open", mb_file, fetched.readable)>>
                       \o (IF fetched.readable /\ Len(fetched.members) > 0
                           THEN <<Printed("binary_name = " \o first.name), Printed("")>>
                           ELSE <<>>)
             put == Put(disk, first.name, File(first.data, first.exec, ~first.isfile))
             part == Put(disk, first.name,
                         File("first bytes of " \o first.data, FALSE, ~first.isfile))
         IN /\ pc' = "chmod"
            /\ UNCHANGED status
            /\ IF ~fetched.readable \/ Len(fetched.members) = 0
               THEN log' = log \o opened \o <<UntarError>> /\ UNCHANGED disk
               ELSE IF ~extract_ok
               THEN /\ log' = log \o opened \o <<Ev("tar.extract", first.name, FALSE), UntarError>>
                    /\ disk' = IF written THEN part ELSE disk
               ELSE IF ~remove_ok
               THEN /\ log' = log \o opened \o <<Ev("tar.extract", first.name, TRUE),
                                                 Ev("os.remove", mb_file, FALSE), UntarError>>
                    /\ disk' = put
               ELSE /\ disk' = Remove(put, mb_file)
                    /\ log' = log \o opened \o <<Ev("tar.extract", first.name, TRUE),
                                                 Ev("os.remove", mb_file, TRUE)>>
    /\ UNCHANGED <<argv, os_type, model, mb_file, url, cwd, fetched>>

Extract ==
    /\ pc = "extract"
    /\ \E extract_ok \in BOOLEAN, written \in BOOLEAN, remove_ok \in BOOLEAN :
         LET first == fetched.members[1]
             opened == <<Ev("tarfile.open", mb_file, fetched.readable)>>
                       \* line 117: the text ends in a newline and print adds its own
                       \o (IF fetched.readable /\ Len(fetched.members) > 0
                           THEN <<Printed("binary_name = " \o first.name), Printed("")>>
                           ELSE <<>>)
             put == Put(disk, first.name, File(first.data, first.exec, ~first.isfile))
             part == Put(disk, first.name,
                         File("first bytes of " \o first.data, FALSE, ~first.isfile))
         IN IF ~fetched.readable
            THEN Exit(1, opened \o <<UntarError>>) /\ UNCHANGED disk
            ELSE IF Len(fetched.members) = 0
            THEN Exit(1, opened \o <<UntarError>>) /\ UNCHANGED disk
            ELSE IF ~extract_ok
            THEN /\ Exit(1, opened \o <<Ev("tar.extract", first.name, FALSE), UntarError>>)
                 \* line 119 raised: the archive stays, and so does what it wrote
                 /\ disk' = IF written THEN part ELSE disk
            ELSE IF ~remove_ok
            THEN /\ Exit(1, opened \o <<Ev("tar.extract", first.name, TRUE),
                                        Ev("os.remove", mb_file, FALSE), UntarError>>)
                 /\ disk' = put
            ELSE /\ disk' = Remove(put, mb_file)
                 /\ pc' = "chmod"
                 /\ log' = log \o opened \o <<Ev("tar.extract", first.name, TRUE),
                                              Ev("os.remove", mb_file, TRUE)>>
                 /\ UNCHANGED status
    /\ UNCHANGED <<argv, os_type, model, mb_file, url, cwd, fetched>>

\* lines 128-131
new_name == IF EndsWith(mb_file, "win.tar.gz") THEN "project.exe" ELSE "project"

Chmod ==
    /\ pc = "chmod"
    /\ IF new_name \in DOMAIN disk
       THEN /\ disk' = [disk EXCEPT ![new_name].exec = TRUE]
            /\ pc' = "done"
            /\ status' = 0
            /\ log' = log \o <<Ev("os.stat", new_name, TRUE), Ev("os.chmod", new_name, TRUE)>>
       ELSE /\ Exit(1, <<Ev("os.stat", new_name, FALSE)>>)
            /\ UNCHANGED disk
    /\ UNCHANGED <<argv, os_type, model, mb_file, url, cwd, fetched>>

\* command lines and systems the script is run with
Script == "download_binary.py"
CommandLines == {<<Script>>} \cup {<<Script, ModelList[i]>> : i \in 1..Len(ModelList)}
                \cup {<<Script, a>> : a \in {"-h", "--help", "", "Template", "template_BM-linux"}}
Systems == {"Darwin", "Linux", "Windows", "MSYS_NT-10.0-19045", "MINGW64_NT-10.0-19045",
            "CYGWIN_NT-10.0", "FreeBSD", "Java", "", "darwin20", "linux2", "SunOS"}

(***************************************************************************)
(* Initial states and specifications.                                      *)
(***************************************************************************)
\* lines 19-36: PhysiCellVTKView(dir, frame, colors); `cell_colors if
\* cell_colors else []` keeps a non-empty table and turns None into []
ViewNew(dir, frame, colors) ==
    /\ output_dir = dir
    /\ current_frame = frame
    /\ cell_colors = colors
    /\ has_qt_window = FALSE
    /\ title = ""
    /\ vtk_win = FALSE
    /\ renderer = FALSE
    /\ interactor = FALSE
    /\ update_timer = "None"
    /\ scene = <<>>
    /\ files = {}
    /\ direct_props = 0
    /\ last = Call("__init__", frame, frame, Step(<<>>, <<>>, ""))

\* a viewer constructed by its owner, or by open_vtk_view (line 411), with a
\* table of one colour
ViewInit ==
    \E dir \in OutputDirs, frame \in Frames : ViewNew(dir, frame, SubSeq(Palette, 1, 1))

\* PhysiCellVTKView(""): current_frame and cell_colors at their defaults, and
\* the viewer left alone
ViewIdle == ViewNew("", 0, <<>>)

FnIdle ==
    /\ fn_pc = "idle" /\ fn_table = <<>> /\ fn_type = 0 /\ fn_color = NoColor
    /\ fn_vol = 0 /\ fn_radius = 0

DLIdle ==
    /\ pc = "idle" /\ argv = <<Script>> /\ os_type = "" /\ model = "" /\ mb_file = ""
    /\ url = "" /\ cwd = "start" /\ disk = EmptyDisk /\ fetched = NoArchive
    /\ status = 0 - 1 /\ log = <<>>

Init == ViewInit /\ FnIdle /\ DLIdle

\* the calls the stated behaviour of the viewer is about, and the output
\* directory changing between them
NextApi ==
    \/ (open_window /\ UNCHANGED <<fnVars, dlVars>>)
    \/ (\E n \in Frames : set_current_frame(n) /\ UNCHANGED <<fnVars, dlVars>>)
    \/ (check_for_frame_update /\ UNCHANGED <<fnVars, dlVars>>)
    \/ (call_update_frame_data /\ UNCHANGED <<fnVars, dlVars>>)
    \/ (close /\ UNCHANGED <<fnVars, dlVars>>)
    \/ (OutputFileWritten /\ UNCHANGED <<fnVars, dlVars>>)
    \/ (OutputFileRemoved /\ UNCHANGED <<fnVars, dlVars>>)

SpecApi == Init /\ [][NextApi]_vars

\* every public method of the viewer, the prop-adding ones called directly too
Next ==
    \/ NextApi
    \/ (call_create_demo_sphere /\ UNCHANGED <<fnVars, dlVars>>)
    \/ (call_add_frame_info_text /\ UNCHANGED <<fnVars, dlVars>>)
    \/ (call_add_error_text /\ UNCHANGED <<fnVars, dlVars>>)
    \/ (call_try_svg_fallback /\ UNCHANGED <<fnVars, dlVars>>)
    \/ (call_load_and_display_cells /\ UNCHANGED <<fnVars, dlVars>>)

Spec == Init /\ [][Next]_vars

InitColor ==
    /\ ViewIdle /\ DLIdle
    /\ fn_pc = "color_in"
    /\ fn_table \in ColorTables
    /\ fn_type \in CellTypes
    /\ fn_color = NoColor
    /\ fn_vol = 0 /\ fn_radius = 0
NextColor == ApplyColor /\ UNCHANGED <<viewVars, dlVars>>
SpecColor == InitColor /\ [][NextColor]_vars

InitRadius ==
    /\ ViewIdle /\ DLIdle
    /\ fn_pc = "radius_in"
    /\ fn_vol \in 0..MaxVolume
    /\ fn_table = <<>> /\ fn_type = 0 /\ fn_color = NoColor /\ fn_radius = 0
NextRadius == ApplyRadius /\ UNCHANGED <<viewVars, dlVars>>
SpecRadius == InitRadius /\ [][NextRadius]_vars

InitDL ==
    /\ ViewIdle /\ FnIdle
    /\ pc = "select"
    /\ argv \in CommandLines
    /\ os_type \in Systems
    /\ disk \in {EmptyDisk, StaleDisk}
    /\ model = "" /\ mb_file = "" /\ url = "" /\ cwd = "start" /\ fetched = NoArchive
    /\ status = 0 - 1 /\ log = <<>>
NextDL ==
    \/ (SelectModel /\ UNCHANGED <<viewVars, fnVars>>)
    \/ (ResolvePlatform /\ UNCHANGED <<viewVars, fnVars>>)
    \/ (Fetch /\ UNCHANGED <<viewVars, fnVars>>)
    \/ (Chdir /\ UNCHANGED <<viewVars, fnVars>>)
    \/ (Extract /\ UNCHANGED <<viewVars, fnVars>>)
    \/ (Chmod /\ UNCHANGED <<viewVars, fnVars>>)
SpecDL == InitDL /\ [][NextDL]_vars

(***************************************************************************)
(* Properties of the viewer.                                               *)
(***************************************************************************)
IsCall(op) == last.op = op
Has(seq, x) == \E i \in 1..Len(seq) : seq[i] = x
EventsOf(kind) == SelectSeq(last.events, LAMBDA e : e.ev = kind)
\* the last call ran update_frame_data up to its try statement
RanUpdate == Has(last.events, Did("RemoveAllViewProps"))

\* reading a file name back: <prefix><sign?><digits><ext>
DigitVal(c) == CHOOSE d \in 0..9 : SubSeq("0123456789", d + 1, d + 1) = c
IsDigit(c) == \E d \in 0..9 : SubSeq("0123456789", d + 1, d + 1) = c
AllDigits(s) == \A i \in 1..Len(s) : IsDigit(SubSeq(s, i, i))
RECURSIVE ParseDec(_)
ParseDec(s) == IF Len(s) = 0 THEN 0
               ELSE ParseDec(SubSeq(s, 1, Len(s) - 1)) * 10 + DigitVal(SubSeq(s, Len(s), Len(s)))
IsFrameFile(name, prefix, ext, n) ==
    LET field == SubSeq(name, Len(prefix) + 1, Len(name) - Len(ext))
    IN /\ Len(name) >= Len(prefix) + Len(ext) + 8
       /\ SubSeq(name, 1, Len(prefix)) = prefix
       /\ SubSeq(name, Len(name) - Len(ext) + 1, Len(name)) = ext
       /\ IF n >= 0
          THEN /\ AllDigits(field) /\ ParseDec(field) = n
               /\ (n < 100000000 => Len(field) = 8)
          ELSE /\ SubSeq(field, 1, 1) = "-" /\ AllDigits(SubSeq(field, 2, Len(field)))
               /\ ParseDec(SubSeq(field, 2, Len(field))) = 0 - n

\* reading a path back: what follows its last "/", and what precedes that
Slashes(p) == {i \in 1..Len(p) : SubSeq(p, i, i) = "/"}
LastSlash(p) == IF Slashes(p) = {} THEN 0
                ELSE CHOOSE i \in Slashes(p) : \A j \in Slashes(p) : j <= i
BaseName(p) == SubSeq(p, LastSlash(p) + 1, Len(p))
\* the directory a path names: output_dir, up to a "/" at its end
InOutputDir(p) ==
    LET d == SubSeq(p, 1, LastSlash(p))
    IN d = output_dir \/ d = output_dir \o "/"
\* the path shown by a "FILE: <path>" text
ShownPath(text) == SubSeq(text, 7, Len(text))

\* C1 (the stated contract, which line 111 breaks): update_frame_data never
\* propagates an exception: every call
\* of open_window, set_current_frame and close, in every state, returns normally.
C1_UpdateNeverRaises ==
    last.op \in {"open_window", "set_current_frame", "close", "update_frame_data"}
        => last.raised = ""

\* C2: an update of frame N probes output<N, 8 digits>.xml first; if it exists
\* the cells are loaded from it and the SVG file is not probed; otherwise
\* snapshot<N, 8 digits>.svg is probed and, if it exists, the SVG texts and the
\* sphere are shown; otherwise the sphere of radius 50 and "No cell data found
\* for frame N" are shown.  One branch, and only one, is taken.
C2_SourcePriority ==
    RanUpdate =>
        LET probes == EventsOf("exists")
            loads == EventsOf("load")
            svgText == \E i \in 1..Len(scene) :
                          /\ scene[i].kind = "text"
                          /\ Len(scene[i].text) > 6
                          /\ SubSeq(scene[i].text, 1, 6) = "FILE: "
                          /\ InOutputDir(ShownPath(scene[i].text))
                          /\ IsFrameFile(BaseName(ShownPath(scene[i].text)),
                                         "snapshot", ".svg", current_frame)
            noData == Has(scene, TextActor("No cell data found for frame " \o Str(current_frame)))
            sphere50 == \E i \in 1..Len(scene) : scene[i].kind = "sphere" /\ scene[i].radius = 50
        IN /\ Len(probes) >= 1
           /\ IsFrameFile(probes[1].arg, "output", ".xml", current_frame)
           /\ probes[1].ok =>
                /\ Len(probes) = 1
                /\ Len(loads) = 1 /\ loads[1].arg = probes[1].arg
                /\ ~svgText /\ ~noData
           /\ ~probes[1].ok =>
                /\ Len(probes) = 2 /\ Len(loads) = 0
                /\ IsFrameFile(probes[2].arg, "snapshot", ".svg", current_frame)
                /\ probes[2].ok => (svgText /\ ~noData)
                /\ ~probes[2].ok => (noData /\ sphere50 /\ ~svgText)
C2_Witness ==
    /\ IsCall("set_current_frame") /\ RanUpdate
    /\ current_frame = BigFrame
    /\ Len(EventsOf("exists")) = 2 /\ EventsOf("exists")[2].ok
    /\ output_dir = "/sim/output"
    /\ Has(scene, TextActor("FILE: /sim/output/snapshot123456789.svg"))

\* C3: set_current_frame(n) with n = current_frame changes neither the frame,
\* the title nor the scene, and probes, loads, clears and renders nothing.
C3_SameFrameNoOp ==
    [][ (last' # last /\ last'.op = "set_current_frame" /\ last'.arg = current_frame)
        => /\ UNCHANGED <<current_frame, cell_colors, output_dir, has_qt_window, title, vtk_win, renderer,
                          interactor, update_timer, scene, files, direct_props>>
           /\ last'.events = <<>>
           /\ last'.raised = "" ]_vars
C3_Witness ==
    /\ IsCall("set_current_frame") /\ last.arg = last.prev
    /\ renderer /\ Len(scene) > 2
    /\ path_exists(files, xml_file_root(current_frame))

\* C6: when the load inside update_frame_data raises, the exception is caught
\* and printed, the scene holds the placeholder sphere and the error text with
\* the exception's text, and the update goes on to render.
C6_LoadErrorHandled ==
    \A i \in 1..Len(last.events) :
        (RanUpdate /\ last.events[i].ev = "raise") =>
            LET msg == last.events[i].arg
            IN /\ last.raised = ""
               /\ i < Len(last.events)
               /\ last.events[i + 1] = Printed("Error loading cell data: " \o msg)
               /\ Has(scene, SphereActor)
               /\ Has(scene, TextActor("Error loading data: " \o msg))
               /\ \E j \in (i + 1)..Len(last.events) : last.events[j] = Did("Render")
C6_Witness ==
    /\ IsCall("set_current_frame")
    /\ Has(last.events, Raised("list index out of range"))

\* C7: a firing of check_for_frame_update changes nothing of the viewer, and
\* the frame changes only in a set_current_frame call.
C7_TimerInert ==
    [][ /\ (last' # last /\ last'.op = "check_for_frame_update")
            => UNCHANGED <<current_frame, cell_colors, output_dir, has_qt_window, title, vtk_win,
                           renderer, interactor, update_timer, scene, files, direct_props>>
        /\ current_frame' # current_frame
            => (last' # last /\ last'.op = "set_current_frame") ]_vars
C7_Witness ==
    /\ IsCall("check_for_frame_update") /\ renderer
    /\ last.prev # 0
    /\ \E n \in Frames : n # current_frame /\ path_exists(files, xml_file_root(n))

(***************************************************************************)
(* Properties of the colour lookup and of the radius formula.              *)
(***************************************************************************)
Scaled(c) == <<(c[1] * 255) \div ColorDen, (c[2] * 255) \div ColorDen, (c[3] * 255) \div ColorDen>>
Gray == <<180, 180, 180>>

\* C4 (the stated mapping, which line 180 breaks for negative types): every
\* cell, of whatever integer type and with whatever
\* table, is given a colour: the table's entry for its type, scaled by 255 and
\* truncated, or the gray (180, 180, 180) when the type is past the table.
C4_ColorForEveryType ==
    fn_pc = "color_out" =>
        /\ fn_color.exc = ""
        /\ (fn_type >= 0 /\ fn_type < Len(fn_table)) => fn_color.rgb = Scaled(fn_table[fn_type + 1])
        /\ fn_type >= Len(fn_table) => fn_color.rgb = Gray
        /\ fn_type < 0 =>
             fn_color.rgb \in {Gray} \cup {Scaled(fn_table[i]) : i \in 1..Len(fn_table)}

\* C5: the radius of a cell is the cube root of total_volume / (4/3 pi): in
\* hundredths, r^3 <= 3V / (4 pi) < (r + 1)^3, with 3V / (4 pi) in millionths
\* and pi = 3.1415927, up to 5 * 10^-5 for the rounding of the constants.
C5_RadiusIsCubeRoot ==
    fn_pc = "radius_out" =>
        LET q == ScaledDiv(3 * fn_vol, 13, 4 * 31415927)
            r == fn_radius
        IN /\ r >= 0
           /\ r * r * r <= q + 50
           /\ (r + 1) * (r + 1) * (r + 1) > q - 50
C5_Witness == fn_pc = "radius_out" /\ fn_vol = 2494 /\ fn_radius = 841

(***************************************************************************)
(* Properties of the download script.                                      *)
(***************************************************************************)
LogHas(kind) == \E i \in 1..Len(log) : log[i].ev = kind
Untouched ==
    /\ disk \in {EmptyDisk, StaleDisk}
    /\ cwd = "start"
    /\ fetched = NoArchive
    /\ ~LogHas("urlretrieve") /\ ~LogHas("chdir") /\ ~LogHas("tarfile.open")
    /\ ~LogHas("tar.extract") /\ ~LogHas("os.remove") /\ ~LogHas("os.chmod")

\* C8 (the stated naming, which the disabled rename of line 129 breaks): after
\* a run whose extraction ended without error, of an
\* archive whose first member is a file, the script's directory holds a file
\* named project (project.exe for the Windows archive) that is the extracted
\* binary and is executable.
C8_BinaryNamedProject ==
    ( /\ pc \in {"done", "exited"}
      /\ Has(log, Ev("os.remove", mb_file, TRUE))
      /\ fetched.members[1].isfile )
    => LET name == IF EndsWith(mb_file, "-win.tar.gz") THEN "project.exe" ELSE "project"
       IN /\ name \in DOMAIN disk
          /\ disk[name].data = fetched.members[1].data
          /\ disk[name].exec
          /\ ~disk[name].isdir

\* C9: with no argument the usage text is printed and the run goes on with
\* template_BM; with -h, --help or a name that is no key of list_models the
\* usage text is printed and the script exits with status 1 having detected,
\* fetched, moved and written nothing; only a key of list_models is fetched.
C9_ModelSelection ==
    pc # "select" =>
        /\ Len(argv) < 2 =>
             /\ SubSeq(log, 1, 3) = print_usage
             /\ model = "template_BM"
             /\ Len(log) >= 4 /\ log[4] = Printed("> Chosen model:  template_BM")
        /\ (Len(argv) >= 2 /\ (argv[2] \in {"-h", "--help"} \/ argv[2] \notin ModelKeys)) =>
             /\ pc = "exited" /\ status = 1
             /\ Len(log) >= 3 /\ SubSeq(log, Len(log) - 2, Len(log)) = print_usage
             /\ ~LogHas("platform.system")
             /\ mb_file = "" /\ url = ""
             /\ Untouched
        /\ LogHas("urlretrieve") =>
             /\ model \in ModelKeys
             /\ Len(argv) >= 2 => argv[2] = model
C9_Witness ==
    /\ pc = "exited" /\ status = 1
    /\ Len(argv) = 2 /\ argv[2] = "Template"
    /\ disk = StaleDisk

\* C10: for a model of list_models, the URL is list_models[model] + model +
\* "-macos.tar.gz" when the lowercased system name is "darwin", "-win.tar.gz"
\* when it starts with win, msys_nt or mingw64_nt, "-linux.tar.gz" when it
\* starts with linux; for any other system the script exits with status 1 and
\* has fetched and written nothing.
C10_PlatformUrl ==
    LogHas("platform.system") =>
        LET lo == Lower(os_type)
            suffix == IF lo = "darwin" THEN "-macos.tar.gz"
                      ELSE IF StartsWith(lo, "win") \/ StartsWith(lo, "msys_nt")
                              \/ StartsWith(lo, "mingw64_nt") THEN "-win.tar.gz"
                      ELSE IF StartsWith(lo, "linux") THEN "-linux.tar.gz"
                      ELSE ""
        IN /\ model \in ModelKeys
           /\ suffix # "" => url = list_models(model) \o model \o suffix
           /\ suffix = "" => (pc = "exited" /\ status = 1 /\ url = "" /\ Untouched)
           /\ os_type = "Darwin" => EndsWith(url, "-macos.tar.gz")
           /\ os_type \in {"Windows", "MSYS_NT-10.0-19045", "MINGW64_NT-10.0-19045"}
                => EndsWith(url, "-win.tar.gz")
           /\ os_type \in {"Linux", "linux2"} => EndsWith(url, "-linux.tar.gz")
           /\ os_type \in {"darwin20", "CYGWIN_NT-10.0", "FreeBSD", "Java", "", "SunOS"}
                => pc = "exited"
C10_Witness ==
    /\ os_type = "MINGW64_NT-10.0-19045" /\ model = "rules" /\ pc = "done"
    /\ url = "https://github.com/MathCancer/PhysiCell/releases/download/1.14.2/rules-win.tar.gz"

\* where the events of a kind stand in the log
LogAt(kind) == {i \in 1..Len(log) : log[i].ev = kind}
Before(k1, k2) == \A i \in LogAt(k1), j \in LogAt(k2) : i < j

\* the names a run may write: the archive and the archive's first member
RunNames == {mb_file} \cup (IF Len(fetched.members) > 0 THEN {fetched.members[1].name}
                                                        ELSE {})
LogFailed(kind) == \E i \in LogAt(kind) : ~log[i].ok

\* C11: a run is one pass, fail-stop: fetch, open, extract the first member,
\* delete the archive, chmod come in that order and at most once each; a
\* failure while opening, extracting or deleting ends the run with status 1 and
\* no chmod; after a successful run the archive is gone and the one name the
\* run has added to the directory is the extracted first member.  The run
\* writes no file but the archive and that member, and a failed run stops
\* with what it had written so far: the archive still whole, beside it
\* nothing (open failed), the member absent, old or cut short (extract
\* failed), or the member whole (delete failed).
C11_SinglePassFailStop ==
    /\ \E d0 \in {EmptyDisk, StaleDisk} :
          /\ DOMAIN disk \subseteq (DOMAIN d0) \cup RunNames
          /\ \A n \in (DOMAIN d0) \ RunNames :
                n \in DOMAIN disk /\ disk[n].data = d0[n].data
    /\ Has(log, UntarError) =>
          /\ mb_file \in DOMAIN disk
          /\ disk[mb_file].data = "archive " \o fetched.id
          /\ LogAt("tar.extract") = {} =>
                \E d0 \in {EmptyDisk, StaleDisk} : disk = Put(d0, mb_file, disk[mb_file])
          /\ LogFailed("tar.extract") =>
                /\ LogAt("os.remove") = {}
                /\ \A n \in RunNames \ {mb_file} :
                      n \in DOMAIN disk =>
                        (disk[n].data # fetched.members[1].data /\ ~disk[n].exec)
          /\ LogFailed("os.remove") =>
                /\ fetched.members[1].name \in DOMAIN disk
                /\ disk[fetched.members[1].name].data = fetched.members[1].data
    /\ Cardinality(LogAt("urlretrieve")) <= 1
    /\ Cardinality(LogAt("tarfile.open")) <= 1
    /\ Cardinality(LogAt("tar.extract")) <= 1
    /\ Cardinality(LogAt("os.remove")) <= 1
    /\ Cardinality(LogAt("os.chmod")) <= 1
    /\ Before("urlretrieve", "tarfile.open") /\ Before("tarfile.open", "tar.extract")
    /\ Before("tar.extract", "os.remove") /\ Before("os.remove", "os.stat")
    /\ Before("os.stat", "os.chmod")
    /\ LogAt("tarfile.open") # {} => LogAt("urlretrieve") # {}
    /\ LogAt("os.chmod") # {} =>
         (LogAt("urlretrieve") # {} /\ LogAt("tar.extract") # {} /\ LogAt("os.remove") # {})
    /\ ( \/ Has(log, UntarError)
         \/ \E i \in 1..Len(log) :
               log[i].ev \in {"urlretrieve", "tarfile.open", "tar.extract", "os.remove"}
               /\ ~log[i].ok )
       => /\ pc = "exited" /\ status = 1
          /\ LogAt("os.stat") = {} /\ LogAt("os.chmod") = {}
    /\ pc = "done" =>
         /\ status = 0
         /\ mb_file \notin DOMAIN disk
         /\ fetched.members[1].name \in DOMAIN disk
         /\ disk[fetched.members[1].name].data = fetched.members[1].data
         /\ \E d0 \in {EmptyDisk, StaleDisk} :
               /\ DOMAIN disk = (DOMAIN d0) \cup {fetched.members[1].name}
               /\ \A n \in (DOMAIN d0) \ {fetched.members[1].name} : disk[n].data = d0[n].data
C11_Witness ==
    /\ pc = "done" /\ status = 0
    /\ fetched.id = "template"
    /\ Has(log, Ev("os.remove", mb_file, TRUE))
    /\ DOMAIN disk = {"project", "template"}

\* the props of the scene that are texts starting with a given prefix
TextsWith(prefix) ==
    {i \in 1..Len(scene) : /\ scene[i].kind = "text"
                           /\ Len(scene[i].text) >= Len(prefix)
                           /\ SubSeq(scene[i].text, 1, Len(prefix)) = prefix}
PropsOf(kind) == {i \in 1..Len(scene) : scene[i].kind = kind}

\* C12: once a window exists its title names current_frame, and the scene of
\* the renderer holds the props of one update only, that of current_frame: one
\* "CURRENT FRAME" text, first; at most one cell actor and one sphere; file,
\* count and no-data texts of current_frame alone; at most four props of the
\* update; and the help text of open_window only as the last prop, so never
\* with props of a later update behind it.
C12_SceneOfLastUpdate ==
    /\ has_qt_window => title = "PhysiCell VTK Viewer - Frame " \o Str(current_frame)
    /\ (renderer /\ direct_props = 0) =>
         LET n == Len(scene)
             helped == n > 0 /\ scene[n] = HelpText
             cur == Str(current_frame)
         IN /\ has_qt_window
            /\ n >= 2
            /\ scene[1] = TextActor("CURRENT FRAME: " \o cur)
            /\ TextsWith("CURRENT FRAME: ") = {1}
            /\ \A i \in TextsWith("Left mouse") : i = n
            /\ n <= (IF helped THEN 5 ELSE 4)
            /\ Cardinality(PropsOf("glyphs")) <= 1
            /\ Cardinality(PropsOf("sphere")) <= 1
            /\ Cardinality(PropsOf("glyphs")) + Cardinality(PropsOf("sphere")) >= 1
            /\ Cardinality(TextsWith("FILE: ")) <= 1
            /\ \A i \in TextsWith("FILE: ") :
                  \/ /\ IsFrameFile(ShownPath(scene[i].text), "output", ".xml", current_frame)
                     /\ PropsOf("glyphs") # {}
                  \/ /\ InOutputDir(ShownPath(scene[i].text))
                     /\ IsFrameFile(BaseName(ShownPath(scene[i].text)),
                                    "snapshot", ".svg", current_frame)
                     /\ PropsOf("sphere") # {}
            /\ \A i \in TextsWith("No cell data found") :
                  scene[i].text = "No cell data found for frame " \o cur
            /\ \A i \in TextsWith("PhysiCell Frame ") :
                  /\ Len(scene[i].text) > Len("PhysiCell Frame " \o cur \o " - ")
                  /\ SubSeq(scene[i].text, 1, Len("PhysiCell Frame " \o cur \o " - "))
                        = "PhysiCell Frame " \o cur \o " - "
C12_Witness ==
    /\ IsCall("set_current_frame") /\ last.arg # last.prev /\ last.raised = ""
    /\ renderer
    /\ current_frame = BigFrame
    /\ PropsOf("glyphs") # {}
    /\ ~Has(scene, HelpText)
====
